---- MODULE Spec2Model ----
(***************************************************************************)
(* PostgreSQL adapter of the database handler: PostgresAdapter,           *)
(* PostgresStatement, PostgresSchemaBuilder, PostgresTableSchemaBuilder.  *)
(*                                                                         *)
(* Every async function of the source is a call record whose pc is the    *)
(* await it is suspended at; one action runs the code between two awaits. *)
(* An awaited call of an async function of this package (statement.run()  *)
(* in exec, commit()/rollback() in transaction, adapter.prepare() in the  *)
(* schema builder) runs inside the caller's record; the statement.run()   *)
(* that createTable/dropTable do not await gets a record of its own.      *)
(* The pg driver is the environment: pool.connect() and client.query()    *)
(* settle with an outcome chosen nondeterministically, queries of one     *)
(* client in submission order.                                            *)
(***************************************************************************)
EXTENDS Integers, Sequences, FiniteSets, TLC

\* ------------------------------------------------------------------ bounds
MaxCalls == 2        \* calls of close, exec, createTable, dropTable, transaction
MaxTopCalls == 3     \* calls in all, those of prepare, run, all and get included
MaxLen == 4          \* characters in a query text
MaxBuilderCalls == 3 \* methods called on one table builder

\* ------------------------------------------------------------------ state
VARIABLES
    pool,       \* PostgresAdapter._pool: "null", "open", or "ending" (end() called, field not yet cleared)
    conns,      \* the PoolClients handed out by pool.connect(), in order of acquisition
    stmts,      \* the PostgresStatement objects, in order of construction
    calls,      \* the invocations of the async functions, in order of invocation
    tQuery,     \* PostgresStatement._query of the statement transformQuery runs on
    tParams,    \* the `parameters` argument of transformQuery
    tOut,       \* what transformQuery returned, once it has run
    columns,    \* SchemaTableBuilder.columns of the table builder under study
    last,       \* the last method called on the builder and how it ended
    nCalls      \* the number of methods called on the builder

avars == <<pool, conns, stmts, calls>>
tvars == <<tQuery, tParams, tOut>>
bvars == <<columns, last, nCalls>>
vars == <<avars, tvars, bvars>>

StmtOps == {"run", "all", "get"}
SchemaOps == {"createTable", "dropTable"}
DriverOutcomes == {"empty", "row", "error"}
TxOutcomes == {"ok", "error"}
FnOutcomes == {"returns", "throws", "rejects"}

E_UNAVAILABLE == "Error: Database client is not available for transaction."
E_NO_CLIENT == "Error: Database client is not available."
E_ACQUIRE == "pool.connect() error"
E_FN == "error thrown by fn"
E_TYPE == "TypeError"
E_RELEASED == "Error: Release called on client which has already been released to the pool."
E_NOT_IMPLEMENTED == "Error: Method not implemented."
DriverError(sql) == "driver error on " \o sql

\* A PoolClient: how often release() was called on it, the SQL it was sent,
\* the calls whose query on it has not completed yet (pg runs them in order),
\* and how many queries it was sent after release() had been called on it.
NewConn == [released |-> 0, log |-> <<>>, queue |-> <<>>, late |-> 0]

\* client.query(sql) called by call c.
Submit(cs, k, sql, c) ==
    [cs EXCEPT ![k].log = Append(@, sql), ![k].queue = Append(@, c),
               ![k].late = IF cs[k].released > 0 THEN @ + 1 ELSE @]

\* The query at the head of client k's queue has completed.
Complete(cs, k) == [cs EXCEPT ![k].queue = Tail(@)]

\* client.release().
Release(cs, k) == [cs EXCEPT ![k].released = @ + 1]

\* new PostgresStatement(query, client): client 0 is undefined.
NewStmt(k, public) == [_client |-> k, conn0 |-> k, public |-> public]

NewCall(op, pc) ==
    [op |-> op, pc |-> pc, stmt |-> 0, client |-> 0, held |-> 0, pool0 |-> pool,
     fn |-> "none", fnInvoked |-> FALSE, err |-> "none", res |-> "pending",
     parent |-> 0, qerr |-> FALSE, out |-> "none", records |-> <<>>]

\* The invocations made by the caller (the others are started by this package).
TopCalls == {c \in 1..Len(calls) : calls[c].parent = 0}
PrepareOps == StmtOps \cup {"prepare"}
CanCallStmt == Cardinality(TopCalls) < MaxTopCalls
CanCall ==
    /\ CanCallStmt
    /\ Cardinality({c \in TopCalls : calls[c].op \notin PrepareOps}) < MaxCalls

Settled(c) == calls[c].res # "pending"

\* `this._pool ? await this._pool.connect() : undefined`: with a pool the call
\* suspends in pool.connect(), which rejects on a pool whose end() was called.
AcquirePc == IF pool = "open" THEN "acquire" ELSE "acquireEnded"
AcquireOutcomes(c) == IF calls[c].pc = "acquire" THEN {"ok", "fail"} ELSE {"fail"}

\* ------------------------------------------------------- PostgresAdapter
Connect ==
    /\ pool # "open"
    /\ pool' = "open"
    /\ UNCHANGED <<conns, stmts, calls>>

CloseCall ==
    /\ CanCall
    /\ IF pool # "null"
       THEN /\ pool' = "ending"
            /\ calls' = Append(calls, NewCall("close", "end"))
       ELSE /\ calls' = Append(calls, [NewCall("close", "done") EXCEPT !.res = "ok"])
            /\ UNCHANGED pool
    /\ UNCHANGED <<conns, stmts>>

CloseResume(c) ==
    /\ calls[c].op = "close" /\ calls[c].pc = "end"
    /\ pool' = "null"
    /\ calls' = [calls EXCEPT ![c].pc = "done", ![c].res = "ok"]
    /\ UNCHANGED <<conns, stmts>>

PrepareCall ==
    /\ CanCallStmt
    /\ IF pool # "null"
       THEN /\ calls' = Append(calls, NewCall("prepare", AcquirePc))
            /\ UNCHANGED stmts
       ELSE /\ stmts' = Append(stmts, NewStmt(0, TRUE))
            /\ calls' = Append(calls, [NewCall("prepare", "done") EXCEPT
                                          !.res = "stmt", !.stmt = Len(stmts) + 1])
    /\ UNCHANGED <<pool, conns>>

PrepareAcquired(c, o) ==
    /\ calls[c].op = "prepare" /\ calls[c].pc \in {"acquire", "acquireEnded"}
    /\ o \in AcquireOutcomes(c)
    /\ IF o = "ok"
       THEN /\ conns' = Append(conns, NewConn)
            /\ stmts' = Append(stmts, NewStmt(Len(conns) + 1, TRUE))
            /\ calls' = [calls EXCEPT ![c].pc = "done", ![c].res = "stmt",
                                      ![c].stmt = Len(stmts) + 1,
                                      ![c].client = Len(conns) + 1]
       ELSE /\ calls' = [calls EXCEPT ![c].pc = "done", ![c].res = E_ACQUIRE]
            /\ UNCHANGED <<conns, stmts>>
    /\ UNCHANGED pool

\* ----------------------------------------------------- PostgresStatement
\* `await this._client?.query(query, values)`: the query is submitted on the
\* client the statement holds now, if it holds one.
StmtSubmit(cs, ss, s, c) ==
    IF ss[s]._client # 0 THEN Submit(cs, ss[s]._client, "QUERY", c) ELSE cs

\* StmtFinally with the release left out: the client is forgotten, not released.
StmtFinally_NoRelease(cs, ss, s) ==
    [conns |-> cs, stmts |-> [ss EXCEPT ![s]._client = 0]]

\* StmtFinally without `this._client = undefined`.
StmtFinally_KeepClient(cs, ss, s) ==
    [conns |-> IF ss[s]._client # 0 THEN Release(cs, ss[s]._client) ELSE cs,
     stmts |-> ss]

\* The finally block of run/all/get: release the client the statement holds
\* now, if any, and forget it.
StmtFinally(cs, ss, s) ==
    [conns |-> IF ss[s]._client # 0 THEN Release(cs, ss[s]._client) ELSE cs,
     stmts |-> [ss EXCEPT ![s]._client = 0]]

\* StmtResult reading `res.rows` without the optional chaining.
StmtResult_NoOptionalChain(op, o) ==
    CASE o = "error" -> DriverError("QUERY")
      [] op = "run" -> IF o = "none" THEN "undefined" ELSE "res"
      [] o = "none" -> E_TYPE
      [] op = "all" -> IF o = "row" THEN "rows1" ELSE "rows0"
      [] op = "get" -> IF o = "row" THEN "row" ELSE "undefined"

\* What run/all/get settle with: o is the driver's outcome, "none" when no
\* query was submitted (res is undefined).
StmtResult(op, o) ==
    CASE o = "error" -> DriverError("QUERY")
      [] op = "run" -> IF o = "none" THEN "undefined" ELSE "res"
      [] op = "all" -> IF o = "row" THEN "rows1" ELSE "rows0"
      [] op = "get" -> IF o = "row" THEN "row" ELSE "undefined"

\* The caller invokes run(), all() or get() on a statement prepare() gave it.
StmtCall(s, op) ==
    /\ CanCallStmt
    /\ s \in 1..Len(stmts) /\ stmts[s].public
    /\ op \in StmtOps
    /\ conns' = StmtSubmit(conns, stmts, s, Len(calls) + 1)
    /\ calls' = Append(calls, [NewCall(op, "query") EXCEPT
                                  !.stmt = s, !.client = stmts[s]._client,
                                  !.held = stmts[s]._client])
    /\ UNCHANGED <<pool, stmts>>

\* The part of run/all/get after the await, for the call record c whose
\* statement is calls[c].stmt: the query leaves the client's queue, the finally
\* block runs, and the record settles with `res`.
RunSettles(c, o, res) ==
    LET k == calls[c].client
        cs == IF k # 0 THEN Complete(conns, k) ELSE conns
        f == StmtFinally(cs, stmts, calls[c].stmt)
    IN /\ IF k # 0
          THEN o \in DriverOutcomes /\ Head(conns[k].queue) = c
          ELSE o = "none"
       /\ conns' = f.conns
       /\ stmts' = f.stmts
       /\ calls' = [calls EXCEPT ![c].pc = "done", ![c].qerr = (o = "error"),
                                 ![c].out = o, ![c].res = res]

\* The awaited query of a run/all/get call has settled (or, with no client,
\* the await of undefined resumes).
StmtResume(c, o) ==
    /\ calls[c].op \in StmtOps /\ calls[c].pc = "query"
    /\ RunSettles(c, o, StmtResult(calls[c].op, o))
    /\ UNCHANGED pool

\* ------------------------------------------------- PostgresAdapter.exec
ExecCall ==
    /\ CanCall
    /\ IF pool # "null"
       THEN /\ calls' = Append(calls, NewCall("exec", AcquirePc))
            /\ UNCHANGED <<conns, stmts>>
       ELSE /\ stmts' = Append(stmts, NewStmt(0, FALSE))
            /\ conns' = StmtSubmit(conns, stmts', Len(stmts) + 1, Len(calls) + 1)
            /\ calls' = Append(calls, [NewCall("exec", "query") EXCEPT
                                          !.stmt = Len(stmts) + 1])
    /\ UNCHANGED pool

ExecAcquired(c, o) ==
    /\ calls[c].op = "exec" /\ calls[c].pc \in {"acquire", "acquireEnded"}
    /\ o \in AcquireOutcomes(c)
    /\ IF o = "ok"
       THEN /\ stmts' = Append(stmts, NewStmt(Len(conns) + 1, FALSE))
            /\ conns' = StmtSubmit(Append(conns, NewConn), stmts', Len(stmts) + 1, c)
            /\ calls' = [calls EXCEPT ![c].pc = "query", ![c].stmt = Len(stmts) + 1,
                                      ![c].client = Len(conns) + 1,
                                      ![c].held = Len(conns) + 1]
       ELSE /\ calls' = [calls EXCEPT ![c].pc = "done", ![c].res = E_ACQUIRE]
            /\ UNCHANGED <<conns, stmts>>
    /\ UNCHANGED pool

\* `await statement.run()` settles: exec returns nothing, or throws what run threw.
ExecResume(c, o) ==
    /\ calls[c].op = "exec" /\ calls[c].pc = "query"
    /\ RunSettles(c, o, IF o = "error" THEN StmtResult("run", o) ELSE "ok")
    /\ UNCHANGED pool

\* ------------------------------------------------ PostgresSchemaBuilder
\* createTable/dropTable up to `await this._adapter.prepare(query)`.
\* createTable calls its callback before anything else; dropTable has none.
SchemaCall(op) ==
    /\ CanCall
    /\ IF pool # "null"
       THEN /\ calls' = Append(calls, [NewCall(op, AcquirePc) EXCEPT
                                          !.fnInvoked = (op = "createTable")])
            /\ UNCHANGED stmts
       ELSE /\ stmts' = Append(stmts, NewStmt(0, FALSE))
            /\ calls' = Append(calls, [NewCall(op, "prepare") EXCEPT
                                          !.fnInvoked = (op = "createTable"),
                                          !.stmt = Len(stmts) + 1])
    /\ UNCHANGED <<pool, conns>>

CreateTableCall == SchemaCall("createTable")

DropTableCall == SchemaCall("dropTable")

\* prepare() has settled: on success `statement.run()` is called, which runs
\* up to its await in a record of its own; the promise it returns is dropped
\* and createTable/dropTable returns.
SchemaPrepared(c, o) ==
    /\ calls[c].op \in SchemaOps
    /\ calls[c].pc \in {"acquire", "acquireEnded", "prepare"}
    /\ IF calls[c].pc = "prepare" THEN o = "ok" ELSE o \in AcquireOutcomes(c)
    /\ IF o = "ok"
       THEN LET fresh == calls[c].pc # "prepare"
                cs == IF fresh THEN Append(conns, NewConn) ELSE conns
                ss == IF fresh THEN Append(stmts, NewStmt(Len(conns) + 1, FALSE))
                               ELSE stmts
                s == IF fresh THEN Len(stmts) + 1 ELSE calls[c].stmt
                r == Len(calls) + 1
            IN /\ stmts' = ss
               /\ conns' = StmtSubmit(cs, ss, s, r)
               /\ calls' = Append([calls EXCEPT ![c].pc = "done", ![c].stmt = s,
                                                ![c].client = ss[s]._client,
                                                ![c].res = "ok"],
                                  [NewCall("run", "query") EXCEPT
                                      !.stmt = s, !.client = ss[s]._client,
                                      !.held = ss[s]._client, !.parent = c])
       ELSE /\ calls' = [calls EXCEPT ![c].pc = "done", ![c].res = E_ACQUIRE]
            /\ UNCHANGED <<conns, stmts>>
    /\ UNCHANGED pool

\* AlterTableThrows for a body that is empty.
AlterTableThrows_EmptyBody == FALSE

\* The body of alterTable is one throw statement.
AlterTableThrows == TRUE

\* alterTable is async: the throw rejects the promise it returns.
AlterTableCall ==
    /\ CanCall
    /\ calls' = Append(calls, [NewCall("alterTable", "done") EXCEPT
                                  !.res = IF AlterTableThrows THEN E_NOT_IMPLEMENTED
                                                              ELSE "ok"])
    /\ UNCHANGED <<pool, conns, stmts>>

\* ------------------------------------------ PostgresAdapter.transaction
\* TxNoClient with the check left out.
TxNoClient_Unchecked(k) == FALSE

\* `if (!client)`.
TxNoClient(k) == k = 0

\* FnThrew for a call of fn outside the try block: no throw is caught.
FnThrew_Uncaught(fn) == FALSE

\* The call `fn([])` in the try block throws, so that the catch block runs. A
\* promise fn returns is not looked at.
FnThrew(fn) == fn = "throws"

TransactionCall(fn) ==
    /\ CanCall
    /\ fn \in FnOutcomes
    /\ IF pool # "null"
       THEN calls' = Append(calls, [NewCall("transaction", AcquirePc) EXCEPT !.fn = fn])
       ELSE calls' = Append(calls, [NewCall("transaction", "done") EXCEPT
                                       !.fn = fn,
                                       !.res = IF TxNoClient(0) THEN E_UNAVAILABLE
                                                               ELSE E_TYPE])
    /\ UNCHANGED <<pool, conns, stmts>>

\* pool.connect() has settled; with a client, BEGIN is sent.
TxAcquired(c, o) ==
    /\ calls[c].op = "transaction" /\ calls[c].pc \in {"acquire", "acquireEnded"}
    /\ o \in AcquireOutcomes(c)
    /\ IF o = "ok"
       THEN LET k == Len(conns) + 1
            IN IF TxNoClient(k)
               THEN /\ calls' = [calls EXCEPT ![c].pc = "done", ![c].res = E_UNAVAILABLE]
                    /\ conns' = Append(conns, NewConn)
               ELSE /\ conns' = Submit(Append(conns, NewConn), k, "BEGIN", c)
                    /\ calls' = [calls EXCEPT ![c].pc = "begin", ![c].client = k]
       ELSE /\ calls' = [calls EXCEPT ![c].pc = "done", ![c].res = E_ACQUIRE]
            /\ UNCHANGED conns
    /\ UNCHANGED <<pool, stmts>>

\* BEGIN has settled. A failure leaves transaction() at line 30. Otherwise
\* fn([]) is called inside the try: if it throws, the catch block calls
\* rollback(), which sends ROLLBACK; if it returns (a value, or a promise that
\* nobody awaits), commit() is called, which sends COMMIT.
TxBeginDone(c, o) ==
    /\ calls[c].op = "transaction" /\ calls[c].pc = "begin"
    /\ o \in TxOutcomes
    /\ LET k == calls[c].client
       IN /\ Head(conns[k].queue) = c
          /\ IF o = "error"
             THEN /\ conns' = Complete(conns, k)
                  /\ calls' = [calls EXCEPT ![c].pc = "done", ![c].qerr = TRUE,
                                            ![c].res = DriverError("BEGIN")]
             ELSE IF FnThrew(calls[c].fn)
             THEN /\ conns' = Submit(Complete(conns, k), k, "ROLLBACK", c)
                  /\ calls' = [calls EXCEPT ![c].pc = "rollback", ![c].err = E_FN,
                                            ![c].fnInvoked = TRUE]
             ELSE /\ conns' = Submit(Complete(conns, k), k, "COMMIT", c)
                  /\ calls' = [calls EXCEPT ![c].pc = "commit", ![c].fnInvoked = TRUE]
    /\ UNCHANGED <<pool, stmts>>

\* COMMIT has settled inside commit(): on success the client is released and
\* transaction() returns the commit closure; on failure commit() rejects, the
\* catch block of transaction() takes the error and calls rollback().
TxCommitDone(c, o) ==
    /\ calls[c].op = "transaction" /\ calls[c].pc = "commit"
    /\ o \in TxOutcomes
    /\ LET k == calls[c].client
       IN /\ Head(conns[k].queue) = c
          /\ IF o = "ok"
             THEN /\ conns' = Release(Complete(conns, k), k)
                  /\ calls' = [calls EXCEPT ![c].pc = "done", ![c].res = "commit"]
             ELSE /\ conns' = Submit(Complete(conns, k), k, "ROLLBACK", c)
                  /\ calls' = [calls EXCEPT ![c].pc = "rollback", ![c].qerr = TRUE,
                                            ![c].err = DriverError("COMMIT")]
    /\ UNCHANGED <<pool, stmts>>

\* ROLLBACK has settled inside rollback(): on success the client is released
\* and the catch block rethrows the error it caught; on failure rollback()
\* rejects and that error leaves transaction().
TxRollbackDone(c, o) ==
    /\ calls[c].op = "transaction" /\ calls[c].pc = "rollback"
    /\ o \in TxOutcomes
    /\ LET k == calls[c].client
       IN /\ Head(conns[k].queue) = c
          /\ IF o = "ok"
             THEN /\ conns' = Release(Complete(conns, k), k)
                  /\ calls' = [calls EXCEPT ![c].pc = "done", ![c].res = calls[c].err]
             ELSE /\ conns' = Complete(conns, k)
                  /\ calls' = [calls EXCEPT ![c].pc = "done", ![c].qerr = TRUE,
                                            ![c].res = DriverError("ROLLBACK")]
    /\ UNCHANGED <<pool, stmts>>

\* The caller invokes the commit closure that transaction call c returned: it
\* sends COMMIT on the client of that call.
CommitHandleCall(c) ==
    /\ CanCall
    /\ calls[c].op = "transaction" /\ calls[c].res = "commit"
    /\ conns' = Submit(conns, calls[c].client, "COMMIT", Len(calls) + 1)
    /\ calls' = Append(calls, [NewCall("commit", "commit") EXCEPT
                                  !.client = calls[c].client])
    /\ UNCHANGED <<pool, stmts>>

\* COMMIT has settled inside a commit closure called by the caller: on success
\* release() is called; on a client released before, the driver's release()
\* throws.
CommitHandleDone(c, o) ==
    /\ calls[c].op = "commit" /\ calls[c].pc = "commit"
    /\ o \in TxOutcomes
    /\ LET k == calls[c].client
       IN /\ Head(conns[k].queue) = c
          /\ IF o = "ok"
             THEN /\ conns' = Release(Complete(conns, k), k)
                  /\ calls' = [calls EXCEPT
                                  ![c].pc = "done",
                                  ![c].res = IF conns[k].released > 0 THEN E_RELEASED
                                                                      ELSE "ok"]
             ELSE /\ conns' = Complete(conns, k)
                  /\ calls' = [calls EXCEPT ![c].pc = "done", ![c].qerr = TRUE,
                                            ![c].res = DriverError("COMMIT")]
    /\ UNCHANGED <<pool, stmts>>

\* ------------------------------- PostgresAdapter.tableColumnInformation
\* The rows information_schema.columns may give for a table.
CatalogRow(name, type, nullable, default) ==
    [column_name |-> name, data_type |-> type, is_nullable |-> nullable,
     column_default |-> default]
CatalogResults ==
    {<<>>,
     <<CatalogRow("id", "integer", "NO", "nextval('t_id_seq')")>>,
     <<CatalogRow("id", "integer", "NO", "nextval('t_id_seq')"),
       CatalogRow("title", "text", "YES", "null")>>}

\* The callback of `res.rows.map(...)`; index counts from 0.
ColumnInfo(row, index) ==
    [cid |-> index, name |-> row.column_name, type |-> row.data_type,
     notnull |-> IF row.is_nullable = "NO" THEN 1 ELSE 0,
     dflt_value |-> row.column_default, pk |-> 0]

TableColumnInformationCall ==
    /\ CanCall
    /\ IF pool # "null"
       THEN calls' = Append(calls, NewCall("tableColumnInformation", AcquirePc))
       ELSE calls' = Append(calls, [NewCall("tableColumnInformation", "done") EXCEPT
                                       !.res = E_NO_CLIENT])
    /\ UNCHANGED <<pool, conns, stmts>>

\* pool.connect() has settled; with a client, the catalog query is sent.
InfoAcquired(c, o) ==
    /\ calls[c].op = "tableColumnInformation"
    /\ calls[c].pc \in {"acquire", "acquireEnded"}
    /\ o \in AcquireOutcomes(c)
    /\ IF o = "ok"
       THEN LET k == Len(conns) + 1
            IN /\ conns' = Submit(Append(conns, NewConn), k, "CATALOG", c)
               /\ calls' = [calls EXCEPT ![c].pc = "query", ![c].client = k]
       ELSE /\ calls' = [calls EXCEPT ![c].pc = "done", ![c].res = E_ACQUIRE]
            /\ UNCHANGED conns
    /\ UNCHANGED <<pool, stmts>>

\* The catalog query has settled. A rejection leaves the function at the
\* await; otherwise the client is released and the rows are mapped.
InfoQueryDone(c, o, rows) ==
    /\ calls[c].op = "tableColumnInformation" /\ calls[c].pc = "query"
    /\ o \in TxOutcomes
    /\ rows \in CatalogResults
    /\ LET k == calls[c].client
       IN /\ Head(conns[k].queue) = c
          /\ IF o = "ok"
             THEN /\ conns' = Release(Complete(conns, k), k)
                  /\ calls' = [calls EXCEPT
                                  ![c].pc = "done", ![c].res = "records",
                                  ![c].records =
                                      [i \in 1..Len(rows) |-> ColumnInfo(rows[i], i - 1)]]
             ELSE /\ rows = <<>>
                  /\ conns' = Complete(conns, k)
                  /\ calls' = [calls EXCEPT ![c].pc = "done", ![c].qerr = TRUE,
                                            ![c].res = DriverError("CATALOG")]
    /\ UNCHANGED <<pool, stmts>>

\* ------------------------------------- PostgresStatement.transformQuery
\* Query texts are sequences of characters over a small alphabet: the sigil, a
\* letter and a digit (both matched by \w), and a blank (not matched by \w).
Alphabet == {"@", "a", "1", " "}
WordChars == {"a", "1"}
Texts == UNION {[1..n -> Alphabet] : n \in 0..MaxLen}

\* The names the parameters object may have as keys, and their values.
KeyNames == {<<"a">>, <<"1">>, <<"a", "1">>}
ParamValues == {"v1", "v2"}
UNDEFINED == "undefined"

\* The `parameters` argument: absent, or an object (a function from its keys).
ParamChoices ==
    {[given |-> FALSE, map |-> <<>>]} \cup
    {[given |-> TRUE, map |-> m] : m \in UNION {[K -> ParamValues] : K \in SUBSET KeyNames}}

RECURSIVE Str(_)
\* The string a sequence of characters spells.
Str(chars) == IF chars = <<>> THEN "" ELSE Head(chars) \o Str(Tail(chars))

\* NoParameters without the test for an object with no keys.
NoParameters_AbsentOnly(params) == ~params.given

\* `!parameters || Object.keys(parameters).length === 0`.
NoParameters(params) == ~params.given \/ DOMAIN params.map = {}

\* `(parameters as Record<string, unknown>)[paramName]`.
Lookup(params, name) ==
    IF name \in DOMAIN params.map THEN params.map[name] ELSE UNDEFINED

RECURSIVE WordEnd(_, _)
\* \w+ is greedy: the last position of the run of word characters that starts
\* at position i of text.
WordEnd(text, i) ==
    IF i < Len(text) /\ text[i + 1] \in WordChars THEN WordEnd(text, i + 1) ELSE i

\* The replacer callback appending the value on every match, not only on the
\* first of a name.
Replacer_AlwaysPush(st, params, paramName) ==
    LET fresh == paramName \notin DOMAIN st.paramMap
        pm == IF fresh THEN (paramName :> st.paramIndex) @@ st.paramMap ELSE st.paramMap
    IN [paramMap |-> pm,
        paramIndex |-> IF fresh THEN st.paramIndex + 1 ELSE st.paramIndex,
        values |-> Append(st.values, Lookup(params, paramName)),
        out |-> st.out \o "$" \o ToString(pm[paramName])]

\* The replacer callback leaving a token alone whose name the parameters
\* object does not have.
Replacer_SkipMissing(st, params, paramName) ==
    LET fresh == paramName \notin DOMAIN st.paramMap
        pm == IF fresh THEN (paramName :> st.paramIndex) @@ st.paramMap ELSE st.paramMap
    IN IF paramName \notin DOMAIN params.map
       THEN [st EXCEPT !.out = @ \o "@" \o Str(paramName)]
       ELSE [paramMap |-> pm,
             paramIndex |-> IF fresh THEN st.paramIndex + 1 ELSE st.paramIndex,
             values |-> IF fresh THEN Append(st.values, params.map[paramName])
                                 ELSE st.values,
             out |-> st.out \o "$" \o ToString(pm[paramName])]

\* The replacer callback: what one match of /@(\w+)/ does to paramMap,
\* paramIndex and values, and the text it returns.
Replacer(st, params, paramName) ==
    LET fresh == paramName \notin DOMAIN st.paramMap
        pm == IF fresh THEN (paramName :> st.paramIndex) @@ st.paramMap ELSE st.paramMap
    IN [paramMap |-> pm,
        paramIndex |-> IF fresh THEN st.paramIndex + 1 ELSE st.paramIndex,
        values |-> IF fresh THEN Append(st.values, Lookup(params, paramName))
                            ELSE st.values,
        out |-> st.out \o "$" \o ToString(pm[paramName])]

RECURSIVE Replace(_, _, _, _)
\* String.prototype.replace with the global pattern /@(\w+)/g from position i
\* on: a match starts at a sigil followed by a word character and takes the
\* whole run; anything else is copied.
Replace(text, params, i, st) ==
    IF i > Len(text) THEN st
    ELSE IF text[i] = "@" /\ i < Len(text) /\ text[i + 1] \in WordChars
    THEN LET e == WordEnd(text, i + 1)
         IN Replace(text, params, e + 1,
                    Replacer(st, params, SubSeq(text, i + 1, e)))
    ELSE Replace(text, params, i + 1, [st EXCEPT !.out = @ \o text[i]])

transformQuery(text, params) ==
    IF NoParameters(params)
    THEN [query |-> Str(text), values |-> <<>>]
    ELSE LET st == Replace(text, params, 1,
                           [paramMap |-> <<>>, paramIndex |-> 1,
                            values |-> <<>>, out |-> ""])
         IN [query |-> st.out, values |-> st.values]

NotRun == [done |-> FALSE, query |-> "", values |-> <<>>]

TransformQuery ==
    /\ ~tOut.done
    /\ tOut' = [done |-> TRUE,
                query |-> transformQuery(tQuery, tParams).query,
                values |-> transformQuery(tQuery, tParams).values]
    /\ UNCHANGED <<tQuery, tParams>>

\* ------------------------------------------- PostgresTableSchemaBuilder
\* A ColumnSpec; the name "" and the datatype "" stand for an absent field.
Col(name, datatype, constraints, autoincrement) ==
    [name |-> name, datatype |-> datatype, constraints |-> constraints,
     autoincrement |-> autoincrement]

\* SchemaTableBuilder.addColumn of the core package: an entry with a name is a
\* new column; an entry without one is a modifier and is merged into the most
\* recently added column.
addColumn(cols, c) ==
    IF c.name # "" \/ cols = <<>>
    THEN Append(cols, c)
    ELSE [cols EXCEPT ![Len(cols)] =
             [@ EXCEPT !.constraints = @ \o c.constraints,
                       !.autoincrement = @ \/ c.autoincrement]]

\* NoColumns with the check left out.
NoColumns_Unchecked(cols) == FALSE

\* `this.columns.length === 0`, the first statement of every modifier.
NoColumns(cols) == Len(cols) = 0

\* A modifier: throw the usage error on a builder without columns, else hand
\* the entry to addColumn.
Modifier(cols, method, c) ==
    IF NoColumns(cols)
    THEN [columns |-> cols,
          error |-> method \o "() requires a previous column. Call a datatype method first."]
    ELSE [columns |-> addColumn(cols, c), error |-> "none"]

\* A datatype method: addColumn with a name and a datatype.
Datatype(cols, name, datatype, constraints) ==
    [columns |-> addColumn(cols, Col(name, datatype, constraints, FALSE)),
     error |-> "none"]

uuid(cols, name) == Datatype(cols, name, "UUID", <<>>)

\* length 0 stands for no length argument (and for 0, which `length ?` treats alike).
string(cols, name, length) ==
    Datatype(cols, name,
             IF length # 0 THEN "VARCHAR(" \o ToString(length) \o ")" ELSE "VARCHAR", <<>>)

text(cols, name) == Datatype(cols, name, "TEXT", <<>>)

integer(cols, name) == Datatype(cols, name, "INTEGER", <<>>)

\* ps is <<>> without precision and scale, else <<precision, scale>>.
decimal(cols, name, ps) ==
    Datatype(cols, name,
             IF ps # <<>>
             THEN "DECIMAL(" \o ToString(ps[1]) \o "," \o ToString(ps[2]) \o ")"
             ELSE "DECIMAL", <<>>)

float(cols, name) == Datatype(cols, name, "REAL", <<>>)

boolean(cols, name) == Datatype(cols, name, "BOOLEAN", <<>>)

json(cols, name) == Datatype(cols, name, "JSONB", <<>>)

RECURSIVE Join(_, _)
\* Array.prototype.join.
Join(parts, sep) ==
    IF parts = <<>> THEN ""
    ELSE IF Len(parts) = 1 THEN Head(parts)
    ELSE Head(parts) \o sep \o Join(Tail(parts), sep)

\* DoubleQuotes without the replacement: the value as it is.
DoubleQuotes_Verbatim(v) == Join(v, "")

RECURSIVE DoubleQuotes(_)
\* v.replace(/'/g, "''") on a value given as a sequence of characters.
DoubleQuotes(v) ==
    IF v = <<>> THEN ""
    ELSE (IF Head(v) = "'" THEN "''" ELSE Head(v)) \o DoubleQuotes(Tail(v))

RECURSIVE QuotedValues(_)
\* values.map(v => `'${...}'`).join(', ').
QuotedValues(values) ==
    IF values = <<>> THEN ""
    ELSE "'" \o DoubleQuotes(Head(values)) \o "'"
         \o (IF Len(values) > 1 THEN ", " ELSE "") \o QuotedValues(Tail(values))

enum(cols, name, values) ==
    Datatype(cols, name, "TEXT",
             <<"CHECK (" \o name \o " IN (" \o QuotedValues(values) \o "))">>)

timestamp(cols, name) == Datatype(cols, name, "TIMESTAMP", <<>>)

time(cols, name) == Datatype(cols, name, "TIME", <<>>)

timestamps(cols) ==
    Datatype(Datatype(cols, "created_at", "TIMESTAMP",
                      <<"DEFAULT CURRENT_TIMESTAMP">>).columns,
             "updated_at", "TIMESTAMP", <<"DEFAULT CURRENT_TIMESTAMP">>)

increments(cols) == Modifier(cols, "increments", Col("", "", <<>>, TRUE))

primaryKey(cols) == Modifier(cols, "primaryKey", Col("", "", <<"PRIMARY KEY">>, FALSE))

foreignKey(cols, referenceTable, referenceColumn) ==
    Modifier(cols, "foreignKey",
             Col("", "", <<"REFERENCES " \o referenceTable \o "(" \o referenceColumn \o ")">>,
                 FALSE))

unique(cols) == Modifier(cols, "unique", Col("", "", <<"UNIQUE">>, FALSE))

nullable(cols) == Modifier(cols, "nullable", Col("", "", <<"NULLABLE">>, FALSE))

\* value is [type, text]: its typeof and what String(value) gives.
defaultTo(cols, value) ==
    Modifier(cols, "defaultTo",
             Col("", "", <<"DEFAULT " \o (IF value.type = "string"
                                           THEN "'" \o value.text \o "'"
                                           ELSE value.text)>>, FALSE))

softDeletes(cols) ==
    nullable(Datatype(cols, "deleted_at", "TIMESTAMP", <<>>).columns)

\* morphs without its second statement.
morphs_IdOnly(cols, name) == integer(cols, name \o "_id")

morphs(cols, name) ==
    string(integer(cols, name \o "_id").columns, name \o "_type", 0)

\* The callback build() maps over the columns: name and datatype, trimmed,
\* then the constraints; for an auto-increment column the definition is
\* assigned anew as `<name> SERIAL`.
ColumnDefinition(column) ==
    LET definition == column.name
                      \o (IF column.datatype # "" THEN " " \o column.datatype ELSE "")
        constrained == IF Len(column.constraints) > 0
                       THEN definition \o " " \o Join(column.constraints, " ")
                       ELSE definition
    IN IF column.autoincrement THEN column.name \o " SERIAL" ELSE constrained

build(cols) ==
    "(" \o Join([i \in 1..Len(cols) |-> ColumnDefinition(cols[i])], ", ") \o ")"

\* The arguments the builder's methods are called with. An enum value is a
\* sequence of pieces: a single quote, or a run of other characters.
ColumnNames == {"id"}
EnumNames == {"status"}
MorphNames == {"commentable"}
Lengths == {0, 100}
PrecisionScales == {<<>>, <<10, 2>>}
EnumValues == {<<<<"draft">>, <<"published">>>>, <<<<"o", "'", "k">>, <<"b">>>>}
DefaultValues == {[type |-> "string", text |-> "x"], [type |-> "number", text |-> "1"],
                  [type |-> "boolean", text |-> "true"], [type |-> "object", text |-> "null"]}
Modifiers == {"increments", "primaryKey", "foreignKey", "unique", "nullable", "defaultTo"}

\* `last`: the method called last with its arguments, the number of columns
\* before it, how it ended, and what build() returned if it was called since.
NoCall == [method |-> "none", args |-> <<>>, before |-> 0, error |-> "none",
           built |-> FALSE, out |-> ""]

\* The caller invokes `method` on the builder; r is what the method does.
Invoke(method, args, r) ==
    /\ nCalls < MaxBuilderCalls
    /\ nCalls' = nCalls + 1
    /\ columns' = r.columns
    /\ last' = [method |-> method, args |-> args, before |-> Len(columns),
                error |-> r.error, built |-> FALSE, out |-> ""]

Call_uuid == \E n \in ColumnNames : Invoke("uuid", <<n>>, uuid(columns, n))
Call_string ==
    \E n \in ColumnNames, l \in Lengths : Invoke("string", <<n>>, string(columns, n, l))
Call_text == \E n \in ColumnNames : Invoke("text", <<n>>, text(columns, n))
Call_integer == \E n \in ColumnNames : Invoke("integer", <<n>>, integer(columns, n))
Call_decimal ==
    \E n \in ColumnNames, ps \in PrecisionScales :
        Invoke("decimal", <<n>>, decimal(columns, n, ps))
Call_float == \E n \in ColumnNames : Invoke("float", <<n>>, float(columns, n))
Call_boolean == \E n \in ColumnNames : Invoke("boolean", <<n>>, boolean(columns, n))
Call_json == \E n \in ColumnNames : Invoke("json", <<n>>, json(columns, n))
Call_enum ==
    \E n \in EnumNames, vs \in EnumValues : Invoke("enum", <<n, vs>>, enum(columns, n, vs))
Call_timestamp == \E n \in ColumnNames : Invoke("timestamp", <<n>>, timestamp(columns, n))
Call_time == \E n \in ColumnNames : Invoke("time", <<n>>, time(columns, n))
Call_timestamps == Invoke("timestamps", <<>>, timestamps(columns))
Call_increments == Invoke("increments", <<>>, increments(columns))
Call_primaryKey == Invoke("primaryKey", <<>>, primaryKey(columns))
Call_foreignKey == Invoke("foreignKey", <<>>, foreignKey(columns, "users", "id"))
Call_unique == Invoke("unique", <<>>, unique(columns))
Call_nullable == Invoke("nullable", <<>>, nullable(columns))
Call_defaultTo == \E v \in DefaultValues : Invoke("defaultTo", <<>>, defaultTo(columns, v))
Call_softDeletes == Invoke("softDeletes", <<>>, softDeletes(columns))
Call_morphs == \E n \in MorphNames : Invoke("morphs", <<n>>, morphs(columns, n))

\* createTable calls build() on the builder once the callback has returned.
Call_build ==
    /\ ~last.built
    /\ last' = [last EXCEPT !.built = TRUE, !.out = build(columns)]
    /\ UNCHANGED <<columns, nCalls>>

\* ------------------------------------------------------- specifications
Init ==
    /\ pool = "null"
    /\ conns = <<>>
    /\ stmts = <<>>
    /\ calls = <<>>
    /\ tQuery = <<>>
    /\ tParams = [given |-> FALSE, map |-> <<>>]
    /\ tOut = NotRun
    /\ columns = <<>>
    /\ last = NoCall
    /\ nCalls = 0

\* A step of the adapter leaves the translator and the builder under study alone.
AdapterOnly == UNCHANGED <<tvars, bvars>>

\* The pool: connect() and close().
PoolStep ==
    \/ Connect /\ AdapterOnly
    \/ CloseCall /\ AdapterOnly
    \/ \E c \in 1..Len(calls) : CloseResume(c) /\ AdapterOnly

\* prepare() and the statements it returns.
StmtStep ==
    \/ PrepareCall /\ AdapterOnly
    \/ \E c \in 1..Len(calls), o \in {"ok", "fail"} : PrepareAcquired(c, o) /\ AdapterOnly
    \/ \E s \in 1..Len(stmts), op \in StmtOps : StmtCall(s, op) /\ AdapterOnly
    \/ \E c \in 1..Len(calls), o \in DriverOutcomes \cup {"none"} :
           StmtResume(c, o) /\ AdapterOnly

\* exec(), createTable() and dropTable().
SchemaStep ==
    \/ ExecCall /\ AdapterOnly
    \/ \E c \in 1..Len(calls), o \in {"ok", "fail"} : ExecAcquired(c, o) /\ AdapterOnly
    \/ \E c \in 1..Len(calls), o \in DriverOutcomes \cup {"none"} :
           ExecResume(c, o) /\ AdapterOnly
    \/ CreateTableCall /\ AdapterOnly
    \/ DropTableCall /\ AdapterOnly
    \/ \E c \in 1..Len(calls), o \in {"ok", "fail"} : SchemaPrepared(c, o) /\ AdapterOnly

\* The schema builder: createTable(), dropTable(), alterTable() and the run()
\* that createTable/dropTable start.
DdlStep ==
    \/ CreateTableCall /\ AdapterOnly
    \/ DropTableCall /\ AdapterOnly
    \/ \E c \in 1..Len(calls), o \in {"ok", "fail"} : SchemaPrepared(c, o) /\ AdapterOnly
    \/ \E c \in 1..Len(calls), o \in DriverOutcomes \cup {"none"} :
           StmtResume(c, o) /\ AdapterOnly
    \/ AlterTableCall /\ AdapterOnly

\* transaction().
TxStep ==
    \/ \E fn \in FnOutcomes : TransactionCall(fn) /\ AdapterOnly
    \/ \E c \in 1..Len(calls), o \in {"ok", "fail"} : TxAcquired(c, o) /\ AdapterOnly
    \/ \E c \in 1..Len(calls), o \in TxOutcomes : TxBeginDone(c, o) /\ AdapterOnly
    \/ \E c \in 1..Len(calls), o \in TxOutcomes : TxCommitDone(c, o) /\ AdapterOnly
    \/ \E c \in 1..Len(calls), o \in TxOutcomes : TxRollbackDone(c, o) /\ AdapterOnly
    \/ \E c \in 1..Len(calls) : CommitHandleCall(c) /\ AdapterOnly
    \/ \E c \in 1..Len(calls), o \in TxOutcomes : CommitHandleDone(c, o) /\ AdapterOnly

\* tableColumnInformation().
InfoStep ==
    \/ TableColumnInformationCall /\ AdapterOnly
    \/ \E c \in 1..Len(calls), o \in {"ok", "fail"} : InfoAcquired(c, o) /\ AdapterOnly
    \/ \E c \in 1..Len(calls), o \in TxOutcomes, rows \in CatalogResults :
           InfoQueryDone(c, o, rows) /\ AdapterOnly

\* Statements: connect(), prepare(), run(), all(), get().
NextStmt == (Connect /\ AdapterOnly) \/ StmtStep
SpecStmt == Init /\ [][NextStmt]_vars

\* Everything that dispatches one SQL statement.
NextSql == (Connect /\ AdapterOnly) \/ StmtStep \/ SchemaStep
SpecSql == Init /\ [][NextSql]_vars

\* The schema builder on an adapter that is connected or not.
NextSchema == (Connect /\ AdapterOnly) \/ DdlStep
SpecSchema == Init /\ [][NextSchema]_vars

\* Transactions: the pool and transaction().
NextTx == PoolStep \/ TxStep
SpecTx == Init /\ [][NextTx]_vars

\* Column information: the pool and tableColumnInformation().
NextInfo == PoolStep \/ InfoStep
SpecInfo == Init /\ [][NextInfo]_vars

\* The parameter translator on every query text and parameters object within
\* the bounds.
InitTranslate ==
    /\ pool = "null"
    /\ conns = <<>>
    /\ stmts = <<>>
    /\ calls = <<>>
    /\ tQuery \in Texts
    /\ tParams \in ParamChoices
    /\ tOut = NotRun
    /\ columns = <<>>
    /\ last = NoCall
    /\ nCalls = 0

NextTranslate == TransformQuery /\ UNCHANGED <<avars, bvars>>
SpecTranslate == InitTranslate /\ [][NextTranslate]_vars

\* One table builder, as the callback of createTable uses it.
InitBuilder ==
    /\ pool = "null"
    /\ conns = <<>>
    /\ stmts = <<>>
    /\ calls = <<>>
    /\ tQuery = <<>>
    /\ tParams = [given |-> FALSE, map |-> <<>>]
    /\ tOut = NotRun
    /\ columns = <<>>
    /\ last = NoCall
    /\ nCalls = 0

BuilderOnly == UNCHANGED <<avars, tvars>>

NextBuilder ==
    \/ Call_uuid /\ BuilderOnly
    \/ Call_string /\ BuilderOnly
    \/ Call_text /\ BuilderOnly
    \/ Call_integer /\ BuilderOnly
    \/ Call_decimal /\ BuilderOnly
    \/ Call_float /\ BuilderOnly
    \/ Call_boolean /\ BuilderOnly
    \/ Call_json /\ BuilderOnly
    \/ Call_enum /\ BuilderOnly
    \/ Call_timestamp /\ BuilderOnly
    \/ Call_time /\ BuilderOnly
    \/ Call_timestamps /\ BuilderOnly
    \/ Call_increments /\ BuilderOnly
    \/ Call_primaryKey /\ BuilderOnly
    \/ Call_foreignKey /\ BuilderOnly
    \/ Call_unique /\ BuilderOnly
    \/ Call_nullable /\ BuilderOnly
    \/ Call_defaultTo /\ BuilderOnly
    \/ Call_softDeletes /\ BuilderOnly
    \/ Call_morphs /\ BuilderOnly
    \/ Call_build /\ BuilderOnly

SpecBuilder == InitBuilder /\ [][NextBuilder]_vars

Next == PoolStep \/ StmtStep \/ SchemaStep \/ DdlStep \/ TxStep \/ InfoStep
Spec == Init /\ [][Next]_vars

\* ================================================================ claims
IsStmtCall(c) == c \in 1..Len(calls) /\ calls[c].op \in StmtOps
IsTx(c) == c \in 1..Len(calls) /\ calls[c].op = "transaction"
Sent(k, sql) == \E i \in 1..Len(conns[k].log) : conns[k].log[i] = sql

\* C1: when a call of run(), all() or get() on a statement that held a
\* connection at the time of the call has settled, that connection has been
\* released exactly once, whether the query succeeded or threw.
C1_ReleasedOnceWhenSettled ==
    \A c \in 1..Len(calls) :
        (IsStmtCall(c) /\ calls[c].held # 0 /\ Settled(c))
            => conns[calls[c].held].released = 1

\* Two calls on a statement holding a connection have settled, one with the
\* driver's error and one with a result.
C1_Witness ==
    \E c, d \in 1..Len(calls) :
        /\ IsStmtCall(c) /\ calls[c].held # 0 /\ Settled(c) /\ calls[c].qerr
        /\ IsStmtCall(d) /\ calls[d].held # 0 /\ Settled(d) /\ ~calls[d].qerr
        /\ conns[calls[c].held].released = 1

\* C2: whatever sequence of run()/all()/get() calls a statement receives,
\* release() is called at most once on its connection.
C2_AtMostOneRelease ==
    \A k \in 1..Len(conns) : conns[k].released <= 1

\* A call made on a statement after its connection was released has settled.
C2_Witness ==
    \E c \in 1..Len(calls) :
        /\ IsStmtCall(c) /\ Settled(c)
        /\ calls[c].held = 0
        /\ stmts[calls[c].stmt].conn0 # 0
        /\ conns[stmts[calls[c].stmt].conn0].released = 1

\* C3 (as stated): when fn raised and transaction() has settled, ROLLBACK was
\* sent, the connection was released exactly once, and if ROLLBACK succeeded
\* the caller gets fn's error.
C3_FnRaises ==
    \A c \in 1..Len(calls) :
        (IsTx(c) /\ calls[c].fnInvoked /\ calls[c].fn = "throws" /\ Settled(c))
            => /\ Sent(calls[c].client, "ROLLBACK")
               /\ conns[calls[c].client].released = 1
               /\ (calls[c].res # DriverError("ROLLBACK") => calls[c].res = E_FN)

\* C4 (as stated): when transaction() has settled after BEGIN succeeded,
\* exactly one of COMMIT and ROLLBACK was sent and the connection was released
\* exactly once.
C4_OneOfCommitRollback ==
    \A c \in 1..Len(calls) :
        (IsTx(c) /\ calls[c].fnInvoked /\ Settled(c))
            => /\ Sent(calls[c].client, "COMMIT") # Sent(calls[c].client, "ROLLBACK")
               /\ conns[calls[c].client].released = 1

\* C5 (as stated): when transaction() has settled, the connection it acquired
\* has been released.
C5_ReleasedOnEveryPath ==
    \A c \in 1..Len(calls) :
        (IsTx(c) /\ calls[c].client # 0 /\ Settled(c))
            => conns[calls[c].client].released >= 1

\* C6: transaction() called while the adapter has no pool fails with the
\* connection-unavailable error, without a connection, without any SQL and
\* without calling fn.
C6_UnavailableBeforeSql ==
    \A c \in 1..Len(calls) :
        (IsTx(c) /\ calls[c].pool0 = "null")
            => /\ calls[c].res = E_UNAVAILABLE
               /\ calls[c].client = 0
               /\ ~calls[c].fnInvoked
               /\ \A k \in 1..Len(conns) :
                      \A i \in 1..Len(conns[k].queue) : conns[k].queue[i] # c

\* transaction() was called after a close() that ended a pool had settled.
C6_Witness ==
    \E c, d \in 1..Len(calls) :
        /\ d < c
        /\ calls[d].op = "close" /\ calls[d].pool0 = "open" /\ Settled(d)
        /\ IsTx(c) /\ calls[c].pool0 = "null" /\ calls[c].res = E_UNAVAILABLE

\* The promise the caller holds for the operation that record c belongs to.
CallerOf(c) == IF calls[c].parent # 0 THEN calls[c].parent ELSE c

\* C7 (as stated): when the driver has failed the query of run(), all(),
\* get(), exec(), createTable() or dropTable(), the connection has been
\* released and the caller's promise is rejected with the driver's error.
C7_DriverErrorReachesCaller ==
    \A c \in 1..Len(calls) :
        calls[c].qerr
            => /\ conns[calls[c].client].released = 1
               /\ calls[CallerOf(c)].res = DriverError("QUERY")

\* What the translator is required to do, stated over the text and not over the scan.
\* A token starts at every sigil that a word character follows.
TokenStarts == {i \in 1..Len(tQuery) : tQuery[i] = "@" /\ i < Len(tQuery)
                                        /\ tQuery[i + 1] \in WordChars}
\* The last position of the token that starts at i: the word characters after
\* the sigil up to the first character that is none, or the end of the text.
TokenEnd(i) ==
    CHOOSE e \in (i + 1)..Len(tQuery) :
        /\ \A j \in (i + 1)..e : tQuery[j] \in WordChars
        /\ e = Len(tQuery) \/ tQuery[e + 1] \notin WordChars
NameAt(i) == SubSeq(tQuery, i + 1, TokenEnd(i))
NamesInText == {NameAt(i) : i \in TokenStarts}
FirstAt(name) == CHOOSE i \in TokenStarts :
                     NameAt(i) = name /\ \A j \in TokenStarts : NameAt(j) = name => i <= j
\* The rank of a name among the names of the text, by first appearance.
RankOf(name) == Cardinality({m \in NamesInText : FirstAt(m) <= FirstAt(name)})

RECURSIVE Rendered(_)
\* The text from position i on with every token replaced by the placeholder of
\* its name's rank.
Rendered(i) ==
    IF i > Len(tQuery) THEN ""
    ELSE IF i \in TokenStarts
         THEN "$" \o ToString(RankOf(NameAt(i))) \o Rendered(TokenEnd(i) + 1)
         ELSE tQuery[i] \o Rendered(i + 1)

NonEmptyMapping == tParams.given /\ DOMAIN tParams.map # {}

\* C8: with a non-empty parameter mapping, every occurrence of a name in the
\* text is replaced by the placeholder of the name's rank by first appearance
\* (1..n), and the value list has one entry per distinct name, the entry at a
\* name's rank being the mapping's value for that name.
C8_PositionalTranslation ==
    (tOut.done /\ NonEmptyMapping)
        => /\ tOut.query = Rendered(1)
           /\ Len(tOut.values) = Cardinality(NamesInText)
           /\ \A name \in NamesInText :
                  /\ RankOf(name) \in 1..Len(tOut.values)
                  /\ tOut.values[RankOf(name)] = Lookup(tParams, name)

\* A text in which one name occurs twice has been translated with a non-empty
\* mapping, into one value.
C8_Witness ==
    /\ tOut.done /\ NonEmptyMapping
    /\ \E i, j \in TokenStarts : i < j /\ NameAt(i) = NameAt(j)
    /\ Len(tOut.values) = 1

\* C9: with the parameters absent or an empty mapping, the translator returns
\* the query text as it is, @name tokens included, and no values.
C9_NoParametersUnchanged ==
    (tOut.done /\ ~NonEmptyMapping)
        => tOut.query = Str(tQuery) /\ tOut.values = <<>>

\* A text with a token has been translated with an empty mapping.
C9_Witness ==
    /\ tOut.done
    /\ tParams.given /\ DOMAIN tParams.map = {}
    /\ TokenStarts # {}
    /\ tOut.query = Str(tQuery)

\* C10: each of unique(), primaryKey(), foreignKey(), nullable(), defaultTo()
\* and increments(), called on a builder without columns, throws the usage
\* error and leaves the column sequence empty.
C10_ModifierNeedsColumn ==
    (last.method \in Modifiers /\ last.before = 0)
        => /\ last.error = last.method
                           \o "() requires a previous column. Call a datatype method first."
           /\ columns = <<>>

\* A modifier has been called on a builder without columns and has thrown.
C10_Witness ==
    /\ last.method \in Modifiers /\ last.before = 0
    /\ last.error # "none"
    /\ columns = <<>>

\* C11 (as stated): build() after integer('id').primaryKey().increments()
\* returns the definition `id SERIAL PRIMARY KEY`: the datatype is replaced by
\* SERIAL and the constraint attached before stays.
C11_SerialKeepsConstraints ==
    (/\ last.built /\ last.method = "increments"
     /\ columns = <<Col("id", "INTEGER", <<"PRIMARY KEY">>, TRUE)>>)
        => last.out = "(id SERIAL PRIMARY KEY)"

\* What the README and the specification give for the enum values in use.
ExpectedEnum(values) ==
    CASE values = <<<<"draft">>, <<"published">>>>
           -> "status TEXT CHECK (status IN ('draft', 'published'))"
      [] values = <<<<"o", "'", "k">>, <<"b">>>>
           -> "status TEXT CHECK (status IN ('o''k', 'b'))"

\* C12: build() after enum(name, values) renders that column as
\* `<name> TEXT CHECK (<name> IN (...))`, each value in single quotes with its
\* single quotes doubled, the values joined by comma and blank in input order.
C12_EnumRendering ==
    (last.built /\ last.method = "enum")
        => LET n == Len(columns)
               earlier == [i \in 1..(n - 1) |-> ColumnDefinition(columns[i])]
           IN /\ n = last.before + 1
              /\ ColumnDefinition(columns[n]) = ExpectedEnum(last.args[2])
              /\ last.out = "(" \o Join(Append(earlier, ExpectedEnum(last.args[2])), ", ")
                                \o ")"

\* build() has rendered an enum column, declared after another column, one of
\* whose values contains a single quote.
C12_Witness ==
    /\ last.built /\ last.method = "enum" /\ last.before = 1
    /\ last.args = <<"status", <<<<"o", "'", "k">>, <<"b">>>>>>
    /\ last.out = "(id INTEGER, status TEXT CHECK (status IN ('o''k', 'b')))"

\* Call c of run(), all() or get() starts in this step.
Starts(c) == c > Len(calls) /\ calls'[c].op \in StmtOps
\* Call c of run(), all() or get() settles in this step.
Settles(c) ==
    /\ c <= Len(calls) /\ calls[c].op \in StmtOps
    /\ calls[c].res = "pending" /\ calls'[c].res # "pending"

\* C13: a call of all() whose result has no rows, or whose statement has no
\* connection, returns the empty sequence; such a call of get() returns
\* undefined; run() on a statement without a connection returns undefined. A
\* call on a statement that never had a connection changes no connection when
\* it starts (no query) and when it settles (no release).
C13_NothingToReturn ==
    [][\A c \in 1..Len(calls') :
           /\ (Settles(c) /\ calls'[c].out \in {"empty", "none"}
                           /\ calls[c].op = "all") => calls'[c].res = "rows0"
           /\ (Settles(c) /\ calls'[c].out \in {"empty", "none"}
                           /\ calls[c].op = "get") => calls'[c].res = "undefined"
           /\ (Settles(c) /\ calls'[c].out = "none"
                           /\ calls[c].op = "run") => calls'[c].res = "undefined"
           /\ ((Starts(c) \/ Settles(c)) /\ stmts[calls'[c].stmt].conn0 = 0)
                  => /\ conns' = conns
                     /\ calls'[c].out = "none"]_vars

\* all() and get() have settled on a statement prepared without a pool, with
\* the empty sequence and with undefined, and there is no connection.
C13_Witness ==
    \E c, d \in 1..Len(calls) :
        /\ calls[c].op = "all" /\ calls[d].op = "get"
        /\ calls[c].stmt = calls[d].stmt /\ stmts[calls[c].stmt].conn0 = 0
        /\ calls[c].res = "rows0" /\ calls[d].res = "undefined"
        /\ conns = <<>>

\* C14: every call of alterTable() is rejected with the not-implemented error
\* in the step that makes it, in which no callback is invoked and no
\* connection, statement or query comes into being; the call has no later step.
C14_AlterTableNotImplemented ==
    [][\A c \in 1..Len(calls') :
           calls'[c].op = "alterTable"
               => /\ calls'[c].res = E_NOT_IMPLEMENTED
                  /\ calls'[c].pc = "done"
                  /\ ~calls'[c].fnInvoked
                  /\ calls'[c].client = 0 /\ calls'[c].stmt = 0
                  /\ c > Len(calls) => (conns' = conns /\ stmts' = stmts)
                  /\ c <= Len(calls) => calls'[c] = calls[c]]_vars

\* alterTable() has been called on a connected adapter with a createTable()
\* under way, and has been rejected.
C14_Witness ==
    \E c, d \in 1..Len(calls) :
        /\ calls[c].op = "alterTable" /\ calls[c].pool0 = "open"
        /\ calls[c].res = E_NOT_IMPLEMENTED
        /\ calls[d].op = "createTable" /\ d < c /\ ~Settled(d)

\* C15: a call of morphs(prefix) appends two columns to the columns there
\* were, `<prefix>_id` with datatype INTEGER and then `<prefix>_type` with
\* datatype VARCHAR, and changes nothing else.
C15_MorphsAppendsTwo ==
    [][(nCalls' = nCalls + 1 /\ last'.method = "morphs")
           => /\ last'.args = <<"commentable">>
              /\ last'.error = "none"
              /\ columns' = columns \o <<Col("commentable_id", "INTEGER", <<>>, FALSE),
                                         Col("commentable_type", "VARCHAR", <<>>, FALSE)>>]_vars

\* morphs() has been called on a builder with one column, and build() renders
\* the three columns.
C15_Witness ==
    /\ last.method = "morphs" /\ last.before = 1 /\ Len(columns) = 3
    /\ last.built
    /\ last.out = "(id INTEGER, commentable_id INTEGER, commentable_type VARCHAR)"

\* C16 (as stated): when the promise of createTable() or dropTable() has
\* resolved, the query its statement submitted has completed on the backend and
\* the statement's connection has been released.
C16_ResolvedMeansExecuted ==
    \A c, d \in 1..Len(calls) :
        (/\ calls[c].op \in SchemaOps /\ calls[c].res = "ok"
         /\ calls[d].parent = c /\ calls[d].client # 0)
            => /\ \A i \in 1..Len(conns[calls[d].client].queue) :
                      conns[calls[d].client].queue[i] # d
               /\ conns[calls[d].client].released = 1

\* C17 (as stated): on the connection of a transaction() that returned its
\* commit handle, release() has been called once and no SQL was sent after
\* that release, however often the handle has been invoked.
C17_HandleReleasesOnce ==
    \A c \in 1..Len(calls) :
        (IsTx(c) /\ calls[c].res = "commit")
            => /\ conns[calls[c].client].late = 0
               /\ conns[calls[c].client].released = 1

\* C18 (as stated): on the connection of a statement, release() is called at
\* most once, only when no query submitted on the connection is still to
\* complete, and no query is submitted after it.
C18_SequentialUse ==
    \A s \in 1..Len(stmts) :
        stmts[s].conn0 # 0
            => LET conn == conns[stmts[s].conn0]
               IN /\ conn.released <= 1
                  /\ conn.late = 0
                  /\ conn.released >= 1 => conn.queue = <<>>

\* The commit handle of a transaction on client k has been invoked.
HandleInvoked(k) == \E d \in 1..Len(calls) : calls[d].op = "commit" /\ calls[d].client = k

\* C19: on the connection of a transaction() call, BEGIN is the first SQL and
\* has been sent when fn is invoked; COMMIT is sent only when fn has been
\* invoked and has returned without throwing; release() is called only when
\* the COMMIT or ROLLBACK sent last has completed; and, up to an invocation of
\* the returned handle, no SQL is sent after release().
C19_TransactionOrder ==
    \A c \in 1..Len(calls) :
        (IsTx(c) /\ calls[c].client # 0)
            => LET conn == conns[calls[c].client]
               IN /\ conn.log[1] = "BEGIN"
                  /\ calls[c].fnInvoked => calls[c].pc # "begin"
                  /\ Sent(calls[c].client, "COMMIT")
                         => calls[c].fnInvoked /\ calls[c].fn # "throws"
                  /\ (conn.released >= 1 /\ ~HandleInvoked(calls[c].client))
                         => /\ conn.queue = <<>>
                            /\ conn.log[Len(conn.log)] \in {"COMMIT", "ROLLBACK"}
                            /\ conn.late = 0
                            /\ conn.released = 1

\* One transaction() has committed and released, and one whose fn threw has
\* rolled back and released.
C19_Witness ==
    \E c, d \in 1..Len(calls) :
        /\ IsTx(c) /\ calls[c].res = "commit"
        /\ conns[calls[c].client].log = <<"BEGIN", "COMMIT">>
        /\ conns[calls[c].client].released = 1
        /\ IsTx(d) /\ calls[d].fn = "throws" /\ calls[d].res = E_FN
        /\ conns[calls[d].client].log = <<"BEGIN", "ROLLBACK">>
        /\ conns[calls[d].client].released = 1

\* C20 (as stated): when fn returned a promise that rejects, COMMIT is never
\* sent, and ROLLBACK has been sent by the time transaction() settles.
C20_AsyncFailureRollsBack ==
    \A c \in 1..Len(calls) :
        (IsTx(c) /\ calls[c].fnInvoked /\ calls[c].fn = "rejects")
            => /\ ~Sent(calls[c].client, "COMMIT")
               /\ Settled(c) => Sent(calls[c].client, "ROLLBACK")

\* The names of the text that the parameters object does not have.
MissingNames == {name \in NamesInText : name \notin DOMAIN tParams.map}

\* C21: with a non-empty mapping and a text that has a name the mapping has
\* no entry for, the translation returns; that name's tokens are replaced by
\* the placeholder of its rank like any other, the value at its rank is
\* undefined, and the value list is as long as the text has distinct names.
C21_MissingNameUndefined ==
    (tOut.done /\ NonEmptyMapping /\ MissingNames # {})
        => /\ tOut.query = Rendered(1)
           /\ Len(tOut.values) = Cardinality(NamesInText)
           /\ \A name \in MissingNames :
                  /\ RankOf(name) \in 1..Len(tOut.values)
                  /\ tOut.values[RankOf(name)] = UNDEFINED

\* A text with two names, the first of them not in the mapping, has been
\* translated into the undefined value and the value of the second.
C21_Witness ==
    /\ tOut.done /\ NonEmptyMapping
    /\ \E name \in MissingNames, other \in NamesInText \ MissingNames :
           /\ RankOf(name) = 1 /\ RankOf(other) = 2
           /\ tOut.values = <<UNDEFINED, tParams.map[other]>>

IsInfo(c) == c \in 1..Len(calls) /\ calls[c].op = "tableColumnInformation"

\* C22 (as stated): when tableColumnInformation() has settled, release() has
\* been called once on the connection it acquired, whether the catalog query
\* succeeded or failed, and every record it returned has pk = 0.
C22_InfoReleasesOnEveryPath ==
    \A c \in 1..Len(calls) :
        (IsInfo(c) /\ Settled(c))
            => /\ calls[c].client # 0 => conns[calls[c].client].released = 1
               /\ \A i \in 1..Len(calls[c].records) : calls[c].records[i].pk = 0

====
